---- MODULE Spec2Model ----
(***************************************************************************)
(* DFO_BIO CSV -> NetCDF conversion: the chunked grouping and profile      *)
(* reconstruction of src/read.py (driven by src/main.py) and of the        *)
(* DFO_BIOReader class of src/DFO_BIO_Arctic_1973_2013.py.                 *)
(*                                                                         *)
(* One behaviour is one execution of a script: `variant` says which of the *)
(* two scripts runs.  The script walks its list of input files; for each   *)
(* file it opens a chunked reader, iterates the chunks, iterates the       *)
(* groups of each chunk (one step per group), and then builds and writes   *)
(* the dataset.  An exception is never caught, so it ends the process.     *)
(***************************************************************************)
EXTENDS Integers, Sequences, FiniteSets, TLC

\* ------------------------------------------------------------------ bounds
\* Largest number of data rows of an input file.
MaxRows == 3
\* Largest chunk size; the scripts pass chunksize=10**6, scaled down here so
\* that a file is read in one or in several chunks.
MaxChunk == 3
\* Number of input files the driver walks (three paths in both scripts).
NumFiles == 3

\* --------------------------------------------------------- input universe
\* The ProfileKey tuples that occur in the input, as the nine groupby columns,
\* listed in ascending (lexicographic) order of the tuple.  The first two
\* differ in the time column only; the time is the ISO string of the CSV, kept
\* as a sequence of characters so that get_date can split it.
KeyTable ==
  << [platform_name |-> "HUDSON", chief_scientist |-> "Jones", cruise_name |-> "98023",
      cruise_number |-> 98023, id |-> 7, event_number |-> 1, latitude |-> 74, longitude |-> -91,
      time |-> <<"1","9","9","8","-","0","7","-","1","4","T","0","3",":","2","2",":","0","0","Z">>],
     [platform_name |-> "HUDSON", chief_scientist |-> "Jones", cruise_name |-> "98023",
      cruise_number |-> 98023, id |-> 7, event_number |-> 1, latitude |-> 74, longitude |-> -91,
      time |-> <<"1","9","9","8","-","0","7","-","1","4","T","1","5",":","0","5",":","4","1","Z">>] >>

Keys == DOMAIN KeyTable

\* Depth readings that occur in the input: negative, zero and positive.
Depths == {-5, 0, 5}

\* The measurement columns a file may lack (none, or PRESPR01).
ObsColumns == {"depth", "TEMPPR01", "PRESPR01", "PSLTZZ01"}
ColumnChoices == {ObsColumns, ObsColumns \ {"PRESPR01"}}

\* Row n of a file: its key, its depth, and three measurements that differ
\* from row to row and from column to column.
Row(n, k, d) ==
  [key |-> k, depth |-> d, TEMPPR01 |-> 10 * n + 1, PRESPR01 |-> 10 * n + 2,
   PSLTZZ01 |-> 10 * n + 3]

Files ==
  UNION { { [n \in 1..len |-> Row(n, ks[n], ds[n])] :
              ks \in [1..len -> Keys], ds \in [1..len -> Depths] } : len \in 0..MaxRows }

\* ---------------------------------------------------------- get_date
\* str.split(sep) on a sequence of characters: the pieces between the
\* occurrences of sep (one piece more than there are separators).
RECURSIVE SplitFrom(_, _, _)
SplitFrom(s, sep, cur) ==
  IF s = <<>> THEN <<cur>>
  ELSE IF Head(s) = sep THEN <<cur>> \o SplitFrom(Tail(s), sep, <<>>)
  ELSE SplitFrom(Tail(s), sep, Append(cur, Head(s)))

Split(s, sep) == SplitFrom(s, sep, <<>>)

DigitChars == <<"0", "1", "2", "3", "4", "5", "6", "7", "8", "9">>

IsDigits(s) == s # <<>> /\ \A n \in 1..Len(s) : \E d \in 1..10 : DigitChars[d] = s[n]

\* int(s) of a string of decimal digits.
RECURSIVE ToInt(_)
ToInt(s) ==
  IF s = <<>> THEN 0
  ELSE 10 * ToInt(SubSeq(s, 1, Len(s) - 1))
         + (CHOOSE d \in 0..9 : DigitChars[d + 1] = s[Len(s)])

\* The zero-padded decimal digits of n, at least `width` of them (%Y, %m, ...).
RECURSIVE Digits(_, _)
Digits(n, width) ==
  IF n < 10 /\ width <= 1 THEN <<DigitChars[n + 1]>>
  ELSE Append(Digits(n \div 10, width - 1), DigitChars[(n % 10) + 1])

\* Days from 1970-01-01 to the civil date y-m-d (proleptic Gregorian).
DaysFromCivil(y, m, d) ==
  LET yy  == IF m <= 2 THEN y - 1 ELSE y
      era == yy \div 400
      yoe == yy - era * 400
      mp  == (m + 9) % 12
      doy == (153 * mp + 2) \div 5 + d - 1
      doe == yoe * 365 + yoe \div 4 - yoe \div 100 + doy
  IN  era * 146097 + doe - 719468

\* Whether the split of the time string raises (IndexError on a missing piece,
\* ValueError on a piece that is no number).
get_date_raises(datestr) ==
  LET parts == Split(datestr, "T")
  IN  \/ Len(parts) < 2
      \/ LET time == Split(parts[2], ":")
             date == Split(parts[1], "-")
         IN  \/ Len(time) < 2
             \/ Len(date) < 3
             \/ \E s \in {date[1], date[2], date[3], time[1], time[2]} : ~IsDigits(s)

\* get_date: the formatted date string "%Y/%m/%d %H:%M:%S" and the epoch
\* seconds of datetime(year, month, day, hour, minutes); the seconds of the
\* input are dropped.  The naive datetime is read in the machine's zone,
\* taken to be UTC here.
get_date(datestr) ==
  LET parts   == Split(datestr, "T")
      date    == Split(parts[1], "-")
      time    == Split(parts[2], ":")
      year    == ToInt(date[1])
      month   == ToInt(date[2])
      day     == ToInt(date[3])
      hour    == ToInt(time[1])
      minutes == ToInt(time[2])
  IN  [datestr   |-> Digits(year, 4) \o <<"/">> \o Digits(month, 2) \o <<"/">>
                       \o Digits(day, 2) \o <<" ">> \o Digits(hour, 2) \o <<":">>
                       \o Digits(minutes, 2) \o <<":">> \o Digits(0, 2),
       timestamp |-> DaysFromCivil(year, month, day) * 86400 + hour * 3600 + minutes * 60]

\* ------------------------------------------------- pandas / list helpers
\* The rows of a sequence that satisfy a test, in their order (boolean mask).
RECURSIVE SelectRows(_, _)
SelectRows(rows, k) ==
  IF rows = <<>> THEN <<>>
  ELSE IF Head(rows).key = k THEN <<Head(rows)>> \o SelectRows(Tail(rows), k)
  ELSE SelectRows(Tail(rows), k)

\* The ascending sequence of the elements of a set of key indices.
RECURSIVE SortedKeys(_)
SortedKeys(S) ==
  IF S = {} THEN <<>>
  ELSE LET m == CHOOSE x \in S : \A y \in S : x <= y
       IN  <<m>> \o SortedKeys(S \ {m})

\* Faulty variant of GroupKeys: one group per run of adjacent equal keys, in
\* row order (the grouping of itertools.groupby on unsorted rows).
RECURSIVE KeyRuns(_)
KeyRuns(rows) ==
  IF rows = <<>> THEN <<>>
  ELSE IF Len(rows) >= 2 /\ rows[1].key = rows[2].key THEN KeyRuns(Tail(rows))
  ELSE <<Head(rows).key>> \o KeyRuns(Tail(rows))

GroupKeys_Runs(chunk) == KeyRuns(chunk)

\* chunk.groupby([...nine key columns...]): the distinct keys of the chunk,
\* iterated in ascending key order (sort=True), whatever the row order.
GroupKeys(chunk) == SortedKeys({chunk[n].key : n \in 1..Len(chunk)})

\* Faulty variant of GroupData: the whole chunk instead of the group's rows.
GroupData_WholeChunk(chunk, k) == chunk

\* The `data` frame of a group: the chunk's rows with that key, in row order.
GroupData(chunk, k) == SelectRows(chunk, k)

\* data[col] as a list.
Column(data, col) == [n \in 1..Len(data) |-> data[n][col]]

\* data['depth'][data['depth'] != 0]
NonZero(depths) == SelectSeq(depths, LAMBDA d : d # 0)

\* min(...) and max(...) of a non-empty sequence of numbers.
Min(s) == CHOOSE x \in {s[n] : n \in 1..Len(s)} : \A n \in 1..Len(s) : x <= s[n]
Max(s) == CHOOSE x \in {s[n] : n \in 1..Len(s)} : \A n \in 1..Len(s) : x >= s[n]

\* [i] * n
Repeat(i, n) == [j \in 1..n |-> i]

\* ------------------------------------------------------------------ state
VARIABLES
  variant,     \* which script runs: "read" (main.py + read.py) or "reader" (DFO_BIOReader)
  chunksize,   \* rows per chunk of pd.read_csv(..., chunksize=...)
  fileNo,      \* position in the driver's list of input files
  pc,          \* "open", "chunks", "done", "exit", or "error" (uncaught exception)
  file,        \* the data rows of the current input file
  columns,     \* the measurement columns the current input file has
  reader,      \* number of rows the chunked reader has handed out
  chunkNo,     \* number of chunks handed out
  chunk,       \* the chunk being iterated
  grouped,     \* the groups of the chunk not yet iterated (keys, ascending)
  data_lists,  \* attr -> list, as built by initialize_variables
  i,           \* the profile index counter of read.py's process_chunks
  ds,          \* the xarray Dataset handed to to_netcdf, by dimension
  written,     \* the input files whose <name>_raw.nc has been written
  log          \* history: one record per completed group iteration

vars == <<variant, chunksize, fileNo, pc, file, columns, reader, chunkNo, chunk, grouped,
          data_lists, i, ds, written, log>>

\* ------------------------------------------------- initialize_variables
string_attrs ==
  <<"platform", "chief_scientist", "cruise_name", "orig_cruise_id", "orig_profile_id",
    "lat", "lon", "datestr">>
additional_attrs == <<"shallowest_depth", "deepest_depth", "timestamp", "parent_index">>
obs_attrs == <<"depth", "press", "temp", "psal">>

Reader_string_attrs ==
  <<"platform", "chief_scientist", "cruise_name", "orig_cruise_id", "orig_profile_id",
    "lat", "lon", "datestr", "depth_row_size", "press_row_size", "temp_row_size",
    "psal_row_size">>
Reader_additional_attrs == <<"shallowest_depth", "deepest_depth", "timestamp">>

Elems(s) == {s[n] : n \in 1..Len(s)}

\* data_lists = {attr: [] for attr in string_attrs + obs_attrs + additional_attrs}
initialize_variables(v) ==
  IF v = "read"
  THEN [a \in Elems(string_attrs \o obs_attrs \o additional_attrs) |-> <<>>]
  ELSE [a \in Elems(Reader_string_attrs \o obs_attrs \o Reader_additional_attrs) |-> <<>>]

NoFields == [a \in {} |-> <<>>]
NoDataset == [profile |-> NoFields, obs |-> NoFields]

\* ------------------------------------------------- the body of the group loop
\* One statement of the loop body: append/extend list `attr` by `vals`, unless
\* evaluating the statement raises.
Stmt(attr, vals, raises) == [attr |-> attr, vals |-> vals, raises |-> raises]

\* Run the statements in order up to the first one that raises.
RECURSIVE Exec(_, _)
Exec(dl, stmts) ==
  IF stmts = <<>> THEN [data_lists |-> dl, raised |-> FALSE]
  ELSE LET s == Head(stmts)
       IN  IF s.raises THEN [data_lists |-> dl, raised |-> TRUE]
           ELSE Exec([dl EXCEPT ![s.attr] = @ \o s.vals], Tail(stmts))

\* data[col]: KeyError when the file has no such column.
Extend(attr, data, col, cols) ==
  Stmt(attr, IF col \in cols THEN Column(data, col) ELSE <<>>, col \notin cols)

\* Lines shared by both variants: the key fields, the parsed date, and the
\* four measurement columns (depth, then temp, then press, then psal).
CommonStmts(k, data, cols) ==
  LET group == KeyTable[k]
      bad   == get_date_raises(group.time)
  IN  << Stmt("platform", <<group.platform_name>>, FALSE),
         Stmt("chief_scientist", <<group.chief_scientist>>, FALSE),
         Stmt("cruise_name", <<group.cruise_name>>, FALSE),
         Stmt("orig_cruise_id", <<group.cruise_number>>, FALSE),
         Stmt("orig_profile_id", <<group.id>>, FALSE),
         Stmt("lat", <<group.latitude>>, FALSE),
         Stmt("lon", <<group.longitude>>, FALSE),
         Stmt("datestr", IF bad THEN <<>> ELSE <<get_date(group.time).datestr>>, bad),
         Stmt("timestamp", IF bad THEN <<>> ELSE <<get_date(group.time).timestamp>>, bad),
         Extend("depth", data, "depth", cols),
         Extend("temp", data, "TEMPPR01", cols),
         Extend("press", data, "PRESPR01", cols),
         Extend("psal", data, "PSLTZZ01", cols) >>

\* Faulty variant of deepest_depth: min where max is meant.
deepest_depth_Min(depths) == Min(depths)

\* read.py: min(data['depth']) and max(data['depth']).
shallowest_depth(depths) == Min(depths)
deepest_depth(depths) == Max(depths)

\* Faulty variant of parent_index: one entry per group (append, not extend).
parent_index_Single(idx, data) == <<idx>>

\* read.py: [i] * len(data['depth'])
parent_index(idx, data) == Repeat(idx, Len(data))

\* Faulty variants of NextIndex: the counter advanced by the group's row
\* count, and the counter not advanced.
NextIndex_Rows(idx, data) == idx + Len(data)
NextIndex_Stuck(idx, data) == idx

\* read.py: i += 1, once per group whatever the rows of its `data`.
NextIndex(idx, data) == idx + 1

\* read.py, lines 41-63, for the group with key k and rows `data`.
GroupStmts(k, data, cols, idx) ==
  LET depths == Column(data, "depth")
  IN  CommonStmts(k, data, cols)
      \o << Stmt("shallowest_depth", <<shallowest_depth(depths)>>, FALSE),
            Stmt("deepest_depth", <<deepest_depth(depths)>>, FALSE),
            Stmt("parent_index", parent_index(idx, data), FALSE) >>

\* DFO_BIOReader: min(data["depth"][data["depth"] != 0]); min() of an empty
\* selection raises ValueError.
Reader_shallowest_raises(depths) == NonZero(depths) = <<>>
Reader_shallowest_depth(depths) == Min(NonZero(depths))

\* DFO_BIOReader.process_chunks, lines 117-150, for the group with key k.
Reader_GroupStmts(k, data, cols) ==
  LET depths == Column(data, "depth")
      empty  == Reader_shallowest_raises(depths)
  IN  CommonStmts(k, data, cols)
      \o << Stmt("shallowest_depth",
                 IF empty THEN <<>> ELSE <<Reader_shallowest_depth(depths)>>, empty),
            Stmt("deepest_depth", <<deepest_depth(depths)>>, FALSE),
            Stmt("depth_row_size", <<Len(data)>>, FALSE),
            Stmt("press_row_size", <<Len(data)>>, FALSE),
            Stmt("temp_row_size", <<Len(data)>>, FALSE),
            Stmt("psal_row_size", <<Len(data)>>, FALSE) >>

\* Faulty variant of ReadChunk: the chunks taken from the end of the file.
ReadChunk_Tail(rows, done, size) ==
  SubSeq(rows, IF Len(rows) - done - size >= 0 THEN Len(rows) - done - size + 1 ELSE 1,
         Len(rows) - done)

\* The next chunk of the reader: at most `size` rows, in file order.
ReadChunk(rows, done, size) ==
  SubSeq(rows, done + 1, IF done + size < Len(rows) THEN done + size ELSE Len(rows))

\* ---------------------------------------------------------------- actions
Init ==
  /\ variant \in {"read", "reader"}
  /\ chunksize \in 1..MaxChunk
  /\ fileNo = 1
  /\ pc = "open"
  /\ file = <<>>
  /\ columns = ObsColumns
  /\ reader = 0
  /\ chunkNo = 0
  /\ chunk = <<>>
  /\ grouped = <<>>
  /\ data_lists = initialize_variables(variant)
  /\ i = 0
  /\ ds = NoDataset
  /\ written = {}
  /\ log = <<>>

\* read_DFO_BIO / DFO_BIOReader.run up to the call of process_chunks: fresh
\* lists and counter, and a chunked reader on the file (read_csv does not look
\* at the columns).
read_csv ==
  /\ pc = "open"
  /\ \E f \in Files, cols \in ColumnChoices :
       /\ file' = f
       /\ columns' = cols
  /\ data_lists' = initialize_variables(variant)
  /\ i' = 0
  /\ reader' = 0
  /\ chunkNo' = 0
  /\ chunk' = <<>>
  /\ grouped' = <<>>
  /\ log' = <<>>
  /\ pc' = "chunks"
  /\ UNCHANGED <<variant, chunksize, fileNo, ds, written>>

\* for chunk in reader: grouped_df = chunk.groupby([...])
next_chunk ==
  /\ pc = "chunks"
  /\ grouped = <<>>
  /\ reader < Len(file)
  /\ LET c == ReadChunk(file, reader, chunksize)
     IN  /\ chunk' = c
         /\ reader' = reader + Len(c)
         /\ grouped' = GroupKeys(c)
  /\ chunkNo' = chunkNo + 1
  /\ UNCHANGED <<variant, chunksize, fileNo, pc, file, columns, data_lists, i, ds, written, log>>

\* One iteration of `for group, data in grouped_df`: the lists as the body
\* left them (r), the index the body used for the group, and the counter after
\* it.  An exception leaves the loop with the lists as they are.
GroupIteration(k, data, r, used, idx) ==
  /\ data_lists' = r.data_lists
  /\ IF r.raised
     THEN /\ pc' = "error"
          /\ UNCHANGED <<i, grouped, log>>
     ELSE /\ pc' = pc
          /\ i' = idx
          /\ grouped' = Tail(grouped)
          /\ log' = Append(log, [key |-> k, chunk |-> chunkNo, data |-> data,
                                 index |-> used])
  /\ UNCHANGED <<variant, chunksize, fileNo, file, columns, reader, chunkNo, chunk, ds, written>>

\* read.py process_chunks, one group.
process_group ==
  /\ variant = "read"
  /\ pc = "chunks"
  /\ grouped # <<>>
  /\ LET k    == Head(grouped)
         data == GroupData(chunk, k)
     IN  GroupIteration(k, data, Exec(data_lists, GroupStmts(k, data, columns, i)),
                        i, NextIndex(i, data))

\* DFO_BIOReader.process_chunks, one group.
Reader_process_group ==
  /\ variant = "reader"
  /\ pc = "chunks"
  /\ grouped # <<>>
  /\ LET k    == Head(grouped)
         data == GroupData(chunk, k)
     IN  GroupIteration(k, data, Exec(data_lists, Reader_GroupStmts(k, data, columns)),
                        Len(log), i)

\* ---------------------------------------------------------- create_dataset
\* read.py: coords timestamp/lat/lon and the string_attrs not in
\* ['lat', 'lon', 'timestamp', 'parent_index'], all on dimension profile.
ProfileFields ==
  {"timestamp", "lat", "lon"}
    \cup {a \in Elems(string_attrs) : a \notin {"lat", "lon", "timestamp", "parent_index"}}

\* read.py: parent_index, depth, press, temp, psal on dimension obs.
ObsFields == {"parent_index", "depth", "press", "temp", "psal"}

\* DFO_BIOReader: coords timestamp/lat/lon, the string_attrs not in
\* ["lat", "lon", "timestamp", "datestr"], and datestr, on dimension profile.
Reader_ProfileFields ==
  {"timestamp", "lat", "lon", "datestr"}
    \cup {a \in Elems(Reader_string_attrs) : a \notin {"lat", "lon", "timestamp", "datestr"}}

\* DFO_BIOReader: depth, press, temp, psal on dimension obs.
Reader_ObsFields == {"depth", "press", "temp", "psal"}

\* xr.Dataset(...): the variables of each dimension.
Dataset(dl, pf, of) == [profile |-> [a \in pf |-> dl[a]], obs |-> [a \in of |-> dl[a]]]

\* xr.Dataset raises ValueError when two variables disagree on the size of
\* the dimension they share.
SizesConflict(fields) ==
  \E a, b \in DOMAIN fields : Len(fields[a]) # Len(fields[b])

\* create_dataset after the chunk loop has ended: build the Dataset and
\* write <file_name>_raw.nc.
WriteDataset(d) ==
  /\ pc = "chunks"
  /\ grouped = <<>>
  /\ reader = Len(file)
  /\ IF SizesConflict(d.profile) \/ SizesConflict(d.obs)
     THEN /\ pc' = "error"
          /\ UNCHANGED <<ds, written>>
     ELSE /\ pc' = "done"
          /\ ds' = d
          /\ written' = written \cup {fileNo}
  /\ UNCHANGED <<variant, chunksize, fileNo, file, columns, reader, chunkNo, chunk, grouped,
                 data_lists, i, log>>

create_dataset ==
  /\ variant = "read"
  /\ WriteDataset(Dataset(data_lists, ProfileFields, ObsFields))

Reader_create_dataset ==
  /\ variant = "reader"
  /\ WriteDataset(Dataset(data_lists, Reader_ProfileFields, Reader_ObsFields))

\* get_data / main: `for data_path in data_paths`; the call returned, its
\* locals are gone, and the next file (if any) is read.
next_file ==
  /\ pc = "done"
  /\ IF fileNo < NumFiles
     THEN /\ fileNo' = fileNo + 1
          /\ pc' = "open"
     ELSE /\ pc' = "exit"
          /\ UNCHANGED fileNo
  /\ file' = <<>>
  /\ columns' = ObsColumns
  /\ reader' = 0
  /\ chunkNo' = 0
  /\ chunk' = <<>>
  /\ grouped' = <<>>
  /\ data_lists' = initialize_variables(variant)
  /\ i' = 0
  /\ ds' = NoDataset
  /\ log' = <<>>
  /\ UNCHANGED <<variant, chunksize, written>>

Next ==
  \/ read_csv
  \/ next_chunk
  \/ process_group
  \/ Reader_process_group
  \/ create_dataset
  \/ Reader_create_dataset
  \/ next_file

Spec == Init /\ [][Next]_vars

\* One call of read_DFO_BIO / DFO_BIOReader.run: the driver's first file.
NextRun ==
  \/ read_csv
  \/ next_chunk
  \/ process_group
  \/ Reader_process_group
  \/ create_dataset
  \/ Reader_create_dataset

SpecRun == Init /\ [][NextRun]_vars

\* ------------------------------------------------------------ properties
\* The chunk (1, 2, ...) that holds row n of the file.
ChunkOfRow(n) == ((n - 1) \div chunksize) + 1

\* The positions of the rows of key k in the file, and the chunks that hold them.
RowsOfKey(k) == {n \in 1..Len(file) : file[n].key = k}
ChunksOfKey(k) == {ChunkOfRow(n) : n \in RowsOfKey(k)}

\* The distinct ProfileKey tuples of the whole file.
DistinctKeys == {KeyTable[file[n].key] : n \in 1..Len(file)}

NoKeySpansChunks == \A k \in Keys : Cardinality(ChunksOfKey(k)) <= 1

\* process_chunks has returned normally: every chunk and group was iterated.
ChunksConsumed == pc \in {"chunks", "done"} /\ grouped = <<>> /\ reader = Len(file)

\* The profile-level lists both variants fill once per group.
ProfileAttrs ==
  {"platform", "chief_scientist", "cruise_name", "orig_cruise_id", "orig_profile_id",
   "lat", "lon", "datestr", "timestamp", "shallowest_depth", "deepest_depth"}

Count(s, x) == Cardinality({n \in 1..Len(s) : s[n] = x})

RECURSIVE SumRows(_)
SumRows(l) == IF l = <<>> THEN 0 ELSE Len(Head(l).data) + SumRows(Tail(l))

\* The ascending sequence of a set of positions, and the values a list holds there.
RECURSIVE Ascending(_)
Ascending(S) ==
  IF S = {} THEN <<>>
  ELSE LET m == CHOOSE x \in S : \A y \in S : x <= y IN <<m>> \o Ascending(S \ {m})

At(s, positions) == [j \in 1..Len(positions) |-> s[positions[j]]]

\* The block of observation list `attr` that bears parent index p.
Block(attr, p) ==
  At(data_lists[attr],
     Ascending({n \in 1..Len(data_lists["parent_index"]) : data_lists["parent_index"][n] = p}))

\* The rows of key k that lie in chunk c of the file, in file order.
FileRows(k, c) == At(file, Ascending({n \in RowsOfKey(k) : ChunkOfRow(n) = c}))

\* C1: when no key has rows in more than one chunk, a completed
\* process_chunks has appended to every profile-level list as many entries as
\* the file has distinct ProfileKey tuples, and (read.py) parent_index holds
\* that many distinct values.
C1_ProfilesEqualDistinctKeys ==
  (ChunksConsumed /\ NoKeySpansChunks) =>
     /\ \A a \in ProfileAttrs : Len(data_lists[a]) = Cardinality(DistinctKeys)
     /\ variant = "read" =>
          Cardinality(Elems(data_lists["parent_index"])) = Cardinality(DistinctKeys)

C1_Witness ==
  /\ variant = "read" /\ ChunksConsumed /\ NoKeySpansChunks
  /\ chunkNo = 2 /\ Len(file) = 3 /\ Cardinality(DistinctKeys) = 2
  /\ Len(data_lists["platform"]) = 2

\* C2: after read.py's process_chunks has consumed all chunks, every
\* parent_index value is the index of an emitted profile, each profile's index
\* occurs as often as its group has rows, and no two groups share an index.
C2_ParentIndexPartition ==
  (variant = "read" /\ ChunksConsumed) =>
     LET pi == data_lists["parent_index"]
         np == Len(data_lists["platform"])
     IN  /\ \A n \in 1..Len(pi) : pi[n] \in 0..(np - 1)
         /\ Len(log) = np
         /\ \A g \in 1..Len(log) :
              /\ log[g].index \in 0..(np - 1)
              /\ Count(pi, log[g].index) = Len(log[g].data)
         /\ \A g, h \in 1..Len(log) : g # h => log[g].index # log[h].index

C2_Witness ==
  /\ variant = "read" /\ ChunksConsumed
  /\ Len(log) = 2 /\ Len(log[1].data) = 2 /\ Len(log[2].data) = 1
  /\ data_lists["parent_index"] = <<0, 0, 1>>

\* C3: after every completed group iteration the observation lists depth,
\* press, temp, psal (and parent_index in read.py) have one common length, the
\* number of rows of the groups processed so far; the obs variables of the
\* written dataset have that length too.
C3_ObsListsAligned ==
  pc # "error" =>
     /\ \A a \in {"depth", "press", "temp", "psal"} : Len(data_lists[a]) = SumRows(log)
     /\ variant = "read" => Len(data_lists["parent_index"]) = SumRows(log)
     /\ pc = "done" => \A a \in DOMAIN ds.obs : Len(ds.obs[a]) = SumRows(log)

C3_Witness ==
  /\ pc = "chunks" /\ grouped = <<>> /\ chunkNo = 1 /\ reader < Len(file)
  /\ Len(log) = 2 /\ SumRows(log) = 2 /\ Len(data_lists["psal"]) = 2

\* C4: the counter i of read.py starts at 0 and is the number of groups
\* processed so far in the file, over all chunks; the g-th group processed got
\* index g - 1, whatever its row count.
C4_IndexCounter ==
  variant = "read" =>
     /\ i = Len(log)
     /\ \A g \in 1..Len(log) : log[g].index = g - 1
     /\ \A g \in 1..(Len(log) - 1) : log[g].chunk <= log[g + 1].chunk

C4_Witness ==
  /\ variant = "read" /\ i = 2 /\ Len(log) = 2
  /\ log[1].chunk = 1 /\ Len(log[1].data) = 2
  /\ log[2].chunk = 2 /\ log[2].index = 1

\* C5: in both variants, a profile whose group has a nonzero depth reading
\* has deepest_depth >= shallowest_depth, negative depths included.
C5_DeepestAtLeastShallowest ==
  \A p \in 1..Len(log) :
     (\E n \in 1..Len(log[p].data) : log[p].data[n].depth # 0) =>
        /\ p <= Len(data_lists["shallowest_depth"])
        /\ p <= Len(data_lists["deepest_depth"])
        /\ data_lists["deepest_depth"][p] >= data_lists["shallowest_depth"][p]

C5_Witness ==
  /\ variant = "reader" /\ Len(log) = 2
  /\ Column(log[1].data, "depth") = <<0, -5>>
  /\ data_lists["shallowest_depth"][1] = -5 /\ data_lists["deepest_depth"][1] = 0
  /\ Column(log[2].data, "depth") = <<5>>

\* C6: in each variant every group of a file that has all its columns,
\* a group of zero depths included, yields one profile and the loop goes on.
C6_EveryGroupYieldsProfile ==
  columns = ObsColumns =>
     /\ pc # "error"
     /\ \A a \in {"shallowest_depth", "deepest_depth"} : Len(data_lists[a]) = Len(log)

\* C7: a file that lacks column PRESPR01 ends its run in an error raised in
\* process_chunks: create_dataset is not reached and no output is written.
C7_MissingColumnFails ==
  "PRESPR01" \notin columns => (pc # "done" /\ fileNo \notin written)

\* C8: the container written for a file with at least one profile holds the profile fields platform,
\* chief_scientist, cruise_name, orig_cruise_id, orig_profile_id, datestr,
\* shallowest_depth, deepest_depth and the obs fields parent_index, depth,
\* press, temp, psal.
C8_ContainerFields ==
  (pc = "done" /\ Len(log) >= 1) =>
     /\ {"platform", "chief_scientist", "cruise_name", "orig_cruise_id", "orig_profile_id",
         "datestr", "shallowest_depth", "deepest_depth"} \subseteq DOMAIN ds.profile
     /\ {"parent_index", "depth", "press", "temp", "psal"} \subseteq DOMAIN ds.obs
     /\ ds.profile["shallowest_depth"] = data_lists["shallowest_depth"]
     /\ ds.profile["deepest_depth"] = data_lists["deepest_depth"]

\* C9: grouping is per chunk: a key with rows in m chunks yields m profiles
\* with m distinct indices, one per chunk, each holding exactly the key's
\* rows of that chunk.
C9_PerChunkGrouping ==
  (variant = "read" /\ ChunksConsumed) =>
     \A k \in Keys :
        LET profiles == {g \in 1..Len(log) : log[g].key = k}
        IN  /\ Cardinality(profiles) = Cardinality(ChunksOfKey(k))
            /\ Cardinality({log[g].index : g \in profiles}) = Cardinality(ChunksOfKey(k))
            /\ \A c \in ChunksOfKey(k) :
                 \E g \in profiles :
                    /\ log[g].chunk = c
                    /\ data_lists["timestamp"][g] = get_date(KeyTable[k].time).timestamp
                    /\ Block("depth", log[g].index) = Column(FileRows(k, c), "depth")
                    /\ Block("temp", log[g].index) = Column(FileRows(k, c), "TEMPPR01")
                    /\ Block("press", log[g].index) = Column(FileRows(k, c), "PRESPR01")
                    /\ Block("psal", log[g].index) = Column(FileRows(k, c), "PSLTZZ01")

C9_Witness ==
  /\ variant = "read" /\ ChunksConsumed /\ columns = ObsColumns
  /\ chunksize = 2 /\ Len(file) = 3
  /\ file[1].key = 2 /\ file[2].key = 1 /\ file[3].key = 1
  /\ Len(log) = 3

\* C10: in read.py parent_index never decreases along the obs table, and
\* the observations of an earlier chunk come before those of a later chunk.
C10_ObsOrder ==
  variant = "read" =>
     LET pi == data_lists["parent_index"]
         t  == data_lists["temp"]
     IN  /\ \A n \in 1..(Len(pi) - 1) : pi[n] <= pi[n + 1]
         /\ \A a, b \in 1..Len(t) :
              a < b => ChunkOfRow(t[a] \div 10) <= ChunkOfRow(t[b] \div 10)

C10_Witness ==
  /\ variant = "read" /\ ChunksConsumed /\ chunkNo = 2 /\ Len(file) = 3
  /\ file[1].key = 2 /\ file[2].key = 1 /\ file[3].key = 2
  /\ data_lists["parent_index"] = <<0, 1, 2>>
  /\ data_lists["temp"] = <<21, 11, 31>>

====
